---------------------------- MODULE Spec2Model ----------------------------
(***************************************************************************)
(* Model of the ticker event queue of mbed-drivers, source/ticker_api.c:   *)
(* ticker_set_handler, ticker_irq_handler, ticker_insert_event,            *)
(* ticker_remove_event and ticker_timeIsInPeriod.                          *)
(*                                                                         *)
(* Event records are numbered 1..NumEvents; NULL is the null pointer.  The *)
(* counter and the timestamps are scaled down: the counter is three bits   *)
(* wide (TICKER_TIME_MASK = 7) and timestamp_t is one bit wider            *)
(* (TimestampMod values), so that the masking of line 76 and the           *)
(* unmasked subtraction of line 75 keep their effect.  The header          *)
(* ticker_api.h, which sets the four TICKER_ constants, is not part of the *)
(* sources at hand; the constants are taken from the specification's       *)
(* description of them.                                                    *)
(*                                                                         *)
(* ticker_irq_handler is split at its loop head and around the call of the *)
(* event handler, since the handler may call ticker_insert_event and       *)
(* ticker_remove_event; the two of them mask interrupts and are one step   *)
(* each.                                                                   *)
(***************************************************************************)
EXTENDS Naturals, Sequences, FiniteSets

\* ------------------------------------------------------------ bounds
\* Number of caller-owned event records.
NumEvents == 3
\* Number of insert / remove / interrupt-entry calls in one run.
MaxOps == 4
\* Number of event records in the runs that follow a drain to its end.
MaxDrainEvents == 1
\* Number of event records in the runs driven by the hardware.
MaxLiveEvents == 2
\* Number of times the counter advances while one interrupt is served.
MaxDrainTicks == 1

\* ------------------------------------------------- program constants
\* TICKER_TIME_MASK: the valid bits of a counter value (scaled down to a
\* counter of three bits).
TICKER_TIME_MASK == 7
\* Number of values of timestamp_t (scaled down; one bit more than the counter).
TimestampMod == 16
\* TICKER_FUTURE_TOLERANCE: events at most this far ahead are run at once.
TICKER_FUTURE_TOLERANCE == 1
\* TICKER_PAST_TOLERANCE: a difference above this is a timestamp just missed.
TICKER_PAST_TOLERANCE == 5
\* TICKER_EXPECT_ISR_DELAY: margin subtracted from the counter on insertion.
TICKER_EXPECT_ISR_DELAY == 1

\* Length of the log of dispatches kept for one drain.
MaxFired == MaxOps

NULL == 0
Records == 1..NumEvents
CounterMod == TICKER_TIME_MASK + 1
CounterValues == 0..TICKER_TIME_MASK
TimestampValues == 0..(TimestampMod - 1)
\* The timestamps callers ask for: a sample of timestamp_t, one of them
\* beyond the counter's width.
TimestampInputs == {0, 3, 6, 9}
\* The id a caller passes with record obj (mbed passes the owner's address).
IdOf(obj) == 10 + obj

VARIABLES
    counter,        \* the hardware counter, interface->read()
    armed,          \* the compare interrupt is enabled (set_interrupt / disable_interrupt)
    compare,        \* the compare value last given to set_interrupt
    event_handler,  \* queue->event_handler is not NULL
    head,           \* queue->head
    next,           \* obj->next of every record
    timestamp,      \* obj->timestamp of every record
    id,             \* obj->id of every record
    pc,             \* position of ticker_irq_handler: idle, loop, callback, ret
    p,              \* ticker_irq_handler's local p: the record being dispatched
    ticksNow,       \* ticker_irq_handler's local ticksNow
    ops,            \* calls made so far (bounded by MaxOps)
    hwop,           \* arming call made by the last step of the program: none, set, disable
    fired,          \* ids handed to the event handler in this drain, in order
    st,             \* per record: fresh, inserted, dispatched, removed
    ticked,         \* how often the counter advanced since the drain was entered
    mutated,        \* a callback inserted or removed since the drain was entered
    dueIns,         \* records a callback of this drain inserted while already due
    cbcall,         \* the last call the running callback made: none, insert, remove
    args,           \* ticker_timeIsInPeriod called on its own: <<start, time, end>>
    ret,            \* its return value: "true" or "false"; "none" before the call
    primask,        \* the processor's interrupt mask (__disable_irq / __enable_irq)
    fg,             \* the foreground call in progress, step by step: op, obj, t, at, entry
    pending         \* the compare interrupt is raised and not yet cleared

vars == <<counter, armed, compare, event_handler, head, next, timestamp, id,
          pc, p, ticksNow, ops, hwop, fired, st, ticked, mutated,
          dueIns, cbcall, args, ret, primask, fg, pending>>

queueVars == <<head, next, timestamp, id>>
hwVars == <<armed, compare>>
drainGhost == <<fired, ticked, mutated, dueIns, cbcall>>
callVars == <<args, ret>>
\* What a step of the queue that is not a call of ticker_insert_event or
\* ticker_remove_event leaves alone.
restVars == <<args, ret, primask, fg, pending>>

\* No foreground call is in progress.
NoCall == [op |-> "none", obj |-> NULL, t |-> 0, at |-> "out", entry |-> FALSE]

\* ------------------------------------------------------------ helpers

\* The records reached from h by following nxt, in order.
RECURSIVE ChainFrom(_, _, _)
ChainFrom(h, nxt, fuel) ==
    IF h = NULL \/ fuel = 0 THEN <<>>
    ELSE <<h>> \o ChainFrom(nxt[h], nxt, fuel - 1)

Chain == ChainFrom(head, next, NumEvents + 1)
Linked == {Chain[i] : i \in 1..Len(Chain)}

\* (a - b) in unsigned arithmetic modulo m.
SubMod(a, b, m) == (a + m - (b % m)) % m

\* Mutant of IsDue: the test for a timestamp just missed (line 44) is missing.
IsDueNearFuture(ts, now) ==
    SubMod(ts, now, CounterMod) <= TICKER_FUTURE_TOLERANCE

\* Lines 41-44: the head's timestamp is due at counter value now.
IsDue(ts, now) ==
    LET diff == SubMod(ts, now, CounterMod)
    IN  (diff <= TICKER_FUTURE_TOLERANCE) \/ (diff > TICKER_PAST_TOLERANCE)

\* Lines 141-163.
ticker_timeIsInPeriod(start, time, end) ==
    \/ (time >= start /\ (time < end \/ start >= end))
    \/ (time < start /\ end < start /\ end > time)


\* ---------------------------------------------------------- adapter

\* interface->set_interrupt(t): arm the compare interrupt at t.
set_interrupt(t) ==
    /\ armed' = TRUE
    /\ compare' = t
    /\ hwop' = "set"

\* interface->disable_interrupt().
disable_interrupt ==
    /\ armed' = FALSE
    /\ compare' = 0
    /\ hwop' = "disable"

\* Mutant of disable_irq: the mask of lines 68 and 109 is missing.
disable_irq_missing == primask' = primask

\* __disable_irq(): the processor's interrupt mask is set.
disable_irq == primask' = TRUE

\* __enable_irq(): the processor's interrupt mask is cleared.
enable_irq == primask' = FALSE

\* No arming call in this step.
NoArming ==
    /\ UNCHANGED hwVars
    /\ hwop' = "none"

\* Records are taken into use in the order of their numbers: the callers'
\* choice of memory, which the queue does not see.
InUseOrder(obj) == \A e \in Records : e < obj => st[e] # "fresh"

\* One more call charged to the run's budget.
Charge ==
    /\ ops < MaxOps
    /\ ops' = ops + 1

\* ------------------------------------------------------------- Init

\* The queue after its set-up: empty, the handler registered by
\* ticker_set_handler (lines 23-27), the compare interrupt not armed; the
\* counter is anywhere.
InitQueue ==
    /\ counter \in CounterValues
    /\ armed = FALSE
    /\ compare = 0
    /\ event_handler = TRUE
    /\ head = NULL
    /\ next = [e \in Records |-> NULL]
    /\ timestamp = [e \in Records |-> 0]
    /\ id = [e \in Records |-> 0]
    /\ pc = "idle"
    /\ p = NULL
    /\ ticksNow = 0
    /\ ops = 0
    /\ hwop = "none"
    /\ fired = <<>>
    /\ st = [e \in Records |-> "fresh"]
    /\ ticked = 0
    /\ mutated = FALSE
    /\ dueIns = {}
    /\ cbcall = "none"
    /\ primask = FALSE
    /\ fg = NoCall
    /\ pending = FALSE

Init ==
    /\ InitQueue
    /\ args = <<0, 0, 0>>
    /\ ret = "none"

\* ------------------------------------------------- ticker_set_handler

\* Lines 23-27, called again after the queue was set up; h says whether the
\* handler given is not NULL.  The adapter's init() of line 24 is taken to
\* leave the counter and the arming alone; the call makes no arming call.
SetHandler(h) ==
    /\ pc = "idle"
    /\ Charge
    /\ event_handler' = h
    /\ NoArming
    /\ UNCHANGED <<counter, queueVars, pc, p, ticksNow,
                   st, drainGhost, restVars>>

\* ------------------------------------------------ ticker_insert_event

\* Line 75: the reference time, computed in timestamp_t.
InsertReference(cnt) == SubMod(cnt, TICKER_EXPECT_ISR_DELAY, TimestampMod)

\* Line 76: timestamp &= TICKER_TIME_MASK.
MaskTimestamp(t) == t % CounterMod

\* Lines 85-94: the index in the chain of the first element the new event
\* comes before; one past the end when there is none.
InsertScan(chain, actCnt, ts) ==
    LET hits == {i \in 1..Len(chain) :
                    ticker_timeIsInPeriod(actCnt, ts, timestamp[chain[i]])}
    IN  IF hits = {} THEN Len(chain) + 1
        ELSE CHOOSE i \in hits : \A j \in hits : i <= j

\* Mutant of ScanStop: the new record is linked to the head.
ScanStopHead(chain, k) == head

\* Lines 86-94, 103: the element the scan stopped at, which the new record
\* is linked to: NULL when the scan reached the end.
ScanStop(chain, k) == IF k > Len(chain) THEN NULL ELSE chain[k]

\* Lines 68-105: the queue and the adapter after inserting obj.
InsertEvent(obj, t, ident) ==
    LET actCnt == InsertReference(counter)
        ts == MaskTimestamp(t)
        chain == Chain
        k == InsertScan(chain, actCnt, ts)
        prev == IF k = 1 THEN NULL ELSE chain[k - 1]
        q == ScanStop(chain, k)
    IN  /\ timestamp' = [timestamp EXCEPT ![obj] = ts]
        /\ id' = [id EXCEPT ![obj] = ident]
        /\ IF prev = NULL
           THEN /\ head' = obj
                /\ set_interrupt(ts)
                /\ next' = [next EXCEPT ![obj] = q]
           ELSE /\ head' = head
                /\ NoArming
                /\ next' = [next EXCEPT ![prev] = obj, ![obj] = q]
        /\ st' = [st EXCEPT ![obj] = "inserted"]

\* ticker_insert_event called from the foreground.  A record that is
\* linked is not inserted again (the caller's contract).
Insert(obj, t) ==
    /\ pc = "idle"
    /\ Charge
    /\ obj \notin Linked
    /\ InUseOrder(obj)
    /\ InsertEvent(obj, t, IdOf(obj))
    /\ enable_irq
    /\ UNCHANGED <<counter, event_handler, pc, p, ticksNow, drainGhost,
                   callVars, fg, pending>>

\* ticker_insert_event called by the event handler during a drain.
CbInsertBody(obj, t) ==
    /\ pc = "callback"
    /\ obj \notin Linked
    /\ InUseOrder(obj)
    /\ InsertEvent(obj, t, IdOf(obj))
    /\ mutated' = TRUE
    /\ cbcall' = "insert"
    /\ dueIns' = IF IsDue(MaskTimestamp(t), counter)
                 THEN dueIns \cup {obj} ELSE dueIns \ {obj}
    /\ enable_irq
    /\ UNCHANGED <<counter, event_handler, pc, p, ticksNow, fired, ticked,
                   callVars, fg, pending>>

CbInsert(obj, t) ==
    /\ pc = "callback"
    /\ Charge
    /\ CbInsertBody(obj, t)

\* ------------------------------------------------ ticker_remove_event

\* Mutant of Predecessor: the scan never finds the record before obj.
PredecessorNone(obj) == NULL

\* Lines 122-129: the record whose next link is obj, NULL when there is none.
Predecessor(obj) ==
    LET hits == {i \in 1..Len(Chain) : next[Chain[i]] = obj}
    IN  IF hits = {} THEN NULL
        ELSE Chain[CHOOSE i \in hits : \A j \in hits : i <= j]

\* Mutant of IsHead: the comparison with the head is missing.
IsHeadAlways(obj) == TRUE

\* Line 112: obj is the first of the list.
IsHead(obj) == head = obj

\* Mutant of RemoveHeadArming: the adapter is not disarmed when the queue
\* becomes empty.
RemoveHeadArmingNoDisable(h) ==
    IF h = NULL THEN NoArming ELSE set_interrupt(timestamp[h])

\* Lines 115-119: the arming after the head was dropped and h became the head.
RemoveHeadArming(h) ==
    IF h = NULL THEN disable_interrupt ELSE set_interrupt(timestamp[h])

\* Lines 109-132: the queue and the adapter after removing obj.
RemoveEvent(obj) ==
    /\ IF IsHead(obj)
       THEN /\ head' = next[obj]
            /\ next' = next
            /\ RemoveHeadArming(next[obj])
       ELSE /\ head' = head
            /\ NoArming
            /\ next' = IF Predecessor(obj) = NULL THEN next
                       ELSE [next EXCEPT ![Predecessor(obj)] = next[obj]]
    /\ st' = IF obj \in Linked THEN [st EXCEPT ![obj] = "removed"] ELSE st
    /\ UNCHANGED <<timestamp, id>>

\* ticker_remove_event called from the foreground.
Remove(obj) ==
    /\ pc = "idle"
    /\ Charge
    /\ RemoveEvent(obj)
    /\ enable_irq
    /\ UNCHANGED <<counter, event_handler, pc, p, ticksNow, drainGhost,
                   callVars, fg, pending>>

\* ticker_remove_event called by the event handler during a drain.
CbRemove(obj) ==
    /\ pc = "callback"
    /\ Charge
    /\ RemoveEvent(obj)
    /\ mutated' = TRUE
    /\ cbcall' = "remove"
    /\ dueIns' = dueIns \ {obj}
    /\ enable_irq
    /\ UNCHANGED <<counter, event_handler, pc, p, ticksNow, fired, ticked,
                   callVars, fg, pending>>

\* ------------------------------------------------- ticker_irq_handler

\* Line 30: entry, clear_interrupt().  The processor takes the interrupt
\* only while its interrupt mask is clear.
IrqEnterBody ==
    /\ pc = "idle"
    /\ ~primask
    /\ pc' = "loop"
    /\ hwop' = "none"
    /\ pending' = FALSE
    /\ UNCHANGED <<counter, hwVars, event_handler, queueVars, p, ticksNow,
                   fired, st, ticked, mutated, dueIns, cbcall,
                   callVars, primask, fg>>

IrqEnter ==
    /\ Charge
    /\ IrqEnterBody

\* The log of dispatches, which keeps the first MaxFired of a drain.
Log(log, ident) == IF Len(log) < MaxFired THEN Append(log, ident) ELSE log

\* Mutant of DrainEmpty: the return of line 37 is missing.
DrainEmptyNoReturn ==
    /\ head = NULL
    /\ disable_interrupt
    /\ pc' = "loop"
    /\ UNCHANGED <<queueVars, p, ticksNow, fired, st>>

\* Lines 34-38: the queue is empty.
DrainEmpty ==
    /\ head = NULL
    /\ disable_interrupt
    /\ pc' = "ret"
    /\ UNCHANGED <<queueVars, p, ticksNow, fired, st>>

\* Mutant of Unlink: the head is not advanced before the handler is called.
UnlinkStay(h) == h

\* Line 49: the head after the due event h was taken off.
Unlink(h) == next[h]

\* Lines 40-56: the head is due; unlink it and call the handler.
DrainDispatch ==
    /\ head # NULL
    /\ IsDue(timestamp[head], counter)
    /\ head' = Unlink(head)
    /\ NoArming
    /\ IF event_handler
       THEN /\ p' = head
            /\ ticksNow' = counter
            /\ pc' = "callback"
            /\ fired' = Log(fired, id[head])
            /\ st' = [st EXCEPT ![head] = "dispatched"]
       ELSE /\ p' = NULL
            /\ ticksNow' = 0
            /\ pc' = "loop"
            /\ fired' = fired
            /\ st' = [st EXCEPT ![head] = "skipped"]
    /\ UNCHANGED <<next, timestamp, id>>

\* Mutant of DrainArming: the drain returns without arming for the head.
DrainArmingStale(h) == NoArming

\* Line 60: the arming when the head h is not due.
DrainArming(h) == set_interrupt(timestamp[h])

\* Lines 57-62: the head is not due; arm for it and return.
DrainArm ==
    /\ head # NULL
    /\ ~IsDue(timestamp[head], counter)
    /\ ticksNow' = counter
    /\ DrainArming(head)
    /\ pc' = "ret"
    /\ UNCHANGED <<queueVars, p, fired, st>>

\* One pass of the loop of lines 33-63.
DrainStep ==
    /\ pc = "loop"
    /\ (DrainEmpty \/ DrainDispatch \/ DrainArm)
    /\ dueIns' = IF pc' = "callback" THEN dueIns \ {p'} ELSE dueIns
    /\ UNCHANGED <<counter, event_handler, ops, ticked, mutated, cbcall,
                   restVars>>

\* The event handler returns to line 53 and the pass of the loop ends
\* (line 56): its locals p and ticksNow go out of scope.
CbReturn ==
    /\ pc = "callback"
    /\ pc' = "loop"
    /\ p' = NULL
    /\ ticksNow' = 0
    /\ cbcall' = "none"
    /\ hwop' = "none"
    /\ UNCHANGED <<counter, hwVars, event_handler, queueVars, ops,
                   fired, st, ticked, mutated, dueIns, restVars>>

\* ticker_irq_handler has returned (lines 37 and 61).
IrqReturn ==
    /\ pc = "ret"
    /\ pc' = "idle"
    /\ p' = NULL
    /\ ticksNow' = 0
    /\ fired' = <<>>
    /\ ticked' = 0
    /\ mutated' = FALSE
    /\ dueIns' = {}
    /\ cbcall' = "none"
    /\ hwop' = "none"
    /\ UNCHANGED <<counter, hwVars, event_handler, queueVars, ops, st,
                   restVars>>

\* ------------------------------------------------------ the counter

\* The hardware counter advances by one, modulo its width.
Tick ==
    /\ pc # "idle" => ticked < MaxDrainTicks
    /\ counter' = (counter + 1) % CounterMod
    /\ ticked' = IF pc # "idle" THEN ticked + 1 ELSE ticked
    /\ UNCHANGED <<hwVars, event_handler, queueVars, pc, p, ticksNow, ops,
                   hwop, fired, st, mutated, dueIns, cbcall, restVars>>

\* ------------------------------------------------------------- Spec

Next ==
    \/ \E h \in BOOLEAN : SetHandler(h)
    \/ \E obj \in Records, t \in TimestampInputs : Insert(obj, t)
    \/ \E obj \in Records : Remove(obj)
    \/ IrqEnter
    \/ DrainStep
    \/ \E obj \in Records, t \in TimestampInputs : CbInsert(obj, t)
    \/ \E obj \in Records : CbRemove(obj)
    \/ CbReturn
    \/ IrqReturn
    \/ Tick

Spec == Init /\ [][Next]_vars

\* =================================================================
\* Claims
\* =================================================================

\* The adapter is armed for the head, or disarmed when the queue is empty.
ArmedAtHead ==
    IF head = NULL THEN ~armed
    ELSE armed /\ compare = timestamp[head]

\* A call of ticker_insert_event, ticker_remove_event or ticker_irq_handler
\* has just completed: in the foreground, at the return of the drain, or a
\* call the running callback made.
CallCompleted ==
    \/ pc \in {"idle", "ret"}
    \/ pc = "callback" /\ cbcall # "none"

\* C1 (as claimed): after every completed call of ticker_insert_event,
\* ticker_remove_event or ticker_irq_handler, those a dispatch callback
\* makes during a drain included, the adapter is armed at head.timestamp
\* when the queue is not empty and disarmed when it is empty.
C1_ArmingAfterEveryCall == CallCompleted => ArmedAtHead

\* C1 (amended): the arming invariant holds after every call completed in
\* the foreground and whenever ticker_irq_handler returns; the calls a
\* callback makes inside a drain are not covered.
C1_ArmingOutsideDrain == pc \in {"idle", "ret"} => ArmedAtHead

\* C1 witness: a drain whose callback changed the queue has returned with
\* events still linked.
C1_Witness ==
    /\ pc = "ret"
    /\ mutated
    /\ head # NULL
    /\ Len(fired) > 0

\* ------------------------------------------------------------------
\* Inserts alone, the counter standing still: the runs the ordering
\* invariant is about.  Every value of timestamp_t is asked for.
InsertOnlyNext == \E obj \in Records, t \in TimestampValues : Insert(obj, t)

InsertOnlySpec == Init /\ [][InsertOnlyNext]_vars

\* The circular age of timestamp t at counter value cnt: its distance from
\* the insertion reference time, modulo the counter's width.
Age(t, cnt) == SubMod(t, SubMod(cnt, TICKER_EXPECT_ISR_DELAY, CounterMod), CounterMod)

\* The chain is in the order of non-decreasing circular age.
SortedByAge ==
    \A i, j \in 1..Len(Chain) :
        i < j => Age(timestamp[Chain[i]], counter) <= Age(timestamp[Chain[j]], counter)

\* C2 (as claimed): after every sequence of ticker_insert_event calls made
\* at one counter value the chain is sorted by non-decreasing circular age
\* with respect to the insertion reference time, so that the head is the
\* linked event of smallest age.
C2_SortedByCircularAge == SortedByAge

\* The same, for chains none of whose timestamps is the reference time itself.
C2_SortedUnlessAtReference ==
    (\A e \in Linked : Age(timestamp[e], counter) # 0) => SortedByAge

\* ------------------------------------------------------------------
\* C3 (as claimed): when ticker_irq_handler returns, no event still linked
\* in the chain is due by the tolerance rule at the counter value the drain
\* read last; every linked event that was due has been dispatched.
C3_NoDueEventLeft ==
    pc = "ret" => \A e \in Linked : ~IsDue(timestamp[e], ticksNow)

\* ------------------------------------------------------------------
\* The record whose id the handler was given.
RecordOfId(x) == CHOOSE e \in Records : id[e] = x

\* The events that were linked when the drain was entered: no callback
\* having touched the queue, those dispatched and those still linked.
AtEntry == {RecordOfId(fired[i]) : i \in 1..Len(fired)} \cup Linked

\* The events linked when the drain was entered have pairwise distinct
\* timestamps, none above the counter value, and each is due at it; the
\* handler is registered, no callback touched the queue and the counter
\* stood still during the drain.
C4_Given ==
    /\ AtEntry # {}
    /\ event_handler
    /\ ~mutated
    /\ ticked = 0
    /\ \A e, f \in AtEntry : e # f => timestamp[e] # timestamp[f]
    /\ \A e \in AtEntry :
          /\ timestamp[e] <= counter
          /\ IsDue(timestamp[e], counter)

\* C4 (as claimed, for events that are due as in the specification's test):
\* one call of ticker_irq_handler hands each of the N linked events to the
\* handler exactly once, in ascending order of their timestamps, however
\* they were inserted.
C4_AllDispatchedAscending ==
    (pc = "ret" /\ C4_Given) =>
        /\ Len(fired) = Cardinality(AtEntry)
        /\ {fired[i] : i \in 1..Len(fired)} = {id[e] : e \in AtEntry}
        /\ \A i, j \in 1..Len(fired) :
              i < j => timestamp[RecordOfId(fired[i])] < timestamp[RecordOfId(fired[j])]

\* ------------------------------------------------------------------
\* This step hands record e to the event handler (line 52).
Dispatches(e) == pc = "loop" /\ pc' = "callback" /\ p' = e

\* C5: the event handler is called at most once for each insertion of a
\* record: a record is handed to it only if it was inserted since it was
\* last dispatched or removed.
C5_AtMostOncePerInsertion ==
    [][\A e \in Records : Dispatches(e) => st[e] = "inserted"]_vars

\* C5 witness: one drain has dispatched the same record twice, its callback
\* having inserted it again in between.
C5_Witness ==
    /\ pc = "callback"
    /\ Len(fired) >= 2
    /\ fired[1] = fired[2]
    /\ fired[2] = id[p]

\* ------------------------------------------------------------------
\* C7 (as claimed): an event that a callback inserts during a drain while
\* its timestamp is already due by the tolerance rule is dispatched before
\* that call of ticker_irq_handler returns, whatever else is linked.  (The
\* counter standing still during the drain, the event is as due at the
\* return as it was when inserted.)
C7_DueInsertDispatched ==
    (pc = "ret" /\ ticked = 0) => dueIns = {}

\* ------------------------------------------------------------------
\* C8: once ticker_remove_event has returned for a linked event, the
\* handler is not called for it unless it is inserted again, whether the
\* remove came from the foreground or from a callback.
C8_RemovedNotDispatched ==
    [][\A e \in Records : Dispatches(e) => st[e] # "removed"]_vars

\* C8 witness: a drain has dispatched other events and returned, while an
\* event removed before, whose timestamp is due, was left alone.
C8_Witness ==
    /\ pc = "ret"
    /\ Len(fired) > 0
    /\ \E e \in Records :
          /\ st[e] = "removed"
          /\ IsDue(timestamp[e], ticksNow)
          /\ \A i \in 1..Len(fired) : fired[i] # id[e]

\* ------------------------------------------------------------------
\* This step is a call of ticker_remove_event for obj.
Removes(obj) == Remove(obj) \/ CbRemove(obj)

\* seq without obj, the order of the others kept.
Without(seq, obj) == SelectSeq(seq, LAMBDA x : x # obj)

\* C9: ticker_remove_event of the head unlinks it and arms the adapter for
\* the new head's timestamp, or disarms it when the queue becomes empty;
\* of a linked event that is not the head, it unlinks that event alone,
\* makes no arming call and leaves the head and the order of the others.
C9_RemoveAndArming ==
    [][\A obj \in Records :
          (Removes(obj) /\ obj \in Linked) =>
              /\ Chain' = Without(Chain, obj)
              /\ IF obj = head
                 THEN IF head' = NULL
                      THEN ~armed' /\ hwop' = "disable"
                      ELSE armed' /\ compare' = timestamp[head'] /\ hwop' = "set"
                 ELSE /\ head' = head
                      /\ hwop' = "none"
                      /\ UNCHANGED hwVars]_vars

\* C9 witness: an event was removed from between the head and the event
\* that now follows the head, with no arming call; the adapter is still
\* armed for the head.
C9_Witness ==
    /\ pc = "idle"
    /\ hwop = "none"
    /\ head # NULL
    /\ next[head] # NULL
    /\ armed /\ compare = timestamp[head]
    /\ \E e \in Records :
          /\ st[e] = "removed"
          /\ e \notin Linked
          /\ next[e] = next[head]

\* ------------------------------------------------------------------
\* C10: ticker_remove_event of a record that is not linked (never
\* inserted, removed already, or dispatched already) leaves the chain, the
\* head, the links and the arming as they were, the empty queue included.
C10_RemoveAbsentIsNoOp ==
    [][\A obj \in Records :
          (Removes(obj) /\ obj \notin Linked) =>
              /\ Chain' = Chain
              /\ head' = head
              /\ next' = next
              /\ hwop' = "none"
              /\ UNCHANGED hwVars]_vars

\* C10 witness: the running callback's last call was a remove, and no
\* record is marked removed: the record it named was not linked (here the
\* one just dispatched), and events are still linked.
C10_Witness ==
    /\ pc = "callback"
    /\ cbcall = "remove"
    /\ head # NULL
    /\ \A e \in Records : st[e] # "removed"

\* ------------------------------------------------------------------
\* The drain under the processor's scheduling: the interrupt routine runs
\* on once entered, a callback returns, and the counter keeps advancing,
\* during a drain as well.  A callback inserts the record it was called for
\* again, as a periodic event does; these inserts are not charged to the
\* budget, so that a callback may insert in every one of its runs.
CbReinsert(t) == CbInsertBody(p, t) /\ UNCHANGED ops

\* The counter advances, any number of times during a drain.
RunningTick ==
    /\ counter' = (counter + 1) % CounterMod
    /\ ticked' = IF pc # "idle" /\ ticked < MaxDrainTicks THEN ticked + 1 ELSE ticked
    /\ UNCHANGED <<hwVars, event_handler, queueVars, pc, p, ticksNow, ops,
                   hwop, fired, st, mutated, dueIns, cbcall, restVars>>

DrainNext ==
    \/ \E obj \in 1..MaxDrainEvents, t \in TimestampInputs : Insert(obj, t)
    \/ IrqEnter
    \/ DrainStep
    \/ \E t \in TimestampInputs : CbReinsert(t)
    \/ CbReturn
    \/ IrqReturn
    \/ RunningTick

DrainSpec ==
    /\ Init
    /\ [][DrainNext]_vars
    /\ WF_vars(DrainStep)
    /\ WF_vars(CbReturn)
    /\ WF_vars(IrqReturn)
    /\ WF_vars(RunningTick)

\* C6 (as claimed): every call of ticker_irq_handler returns, whatever the
\* callbacks do, those that insert events during the drain included.
C6_DrainTerminates == (pc # "idle") ~> (pc = "idle")

\* C6 (amended): every call of ticker_irq_handler returns provided the
\* callbacks stop inserting events at some point of the drain.
C6_TerminatesUnlessInserting ==
    (<>[](cbcall # "insert")) => ([]<>(pc = "idle"))

\* C6 witness: a drain has returned although a callback inserted its own
\* record again, which was then dispatched a second time.
C6_Witness ==
    /\ pc = "ret"
    /\ mutated
    /\ Len(fired) >= 2
    /\ fired[1] = fired[2]

\* ------------------------------------------------------------------
\* ticker_timeIsInPeriod on its own: every triple of counter values is an
\* argument list, and the one step is the call.
PredInit ==
    /\ InitQueue
    /\ args \in CounterValues \X CounterValues \X CounterValues
    /\ ret = "none"

\* Lines 141-163 called with args.
CallTimeIsInPeriod ==
    /\ ret = "none"
    /\ ret' = IF ticker_timeIsInPeriod(args[1], args[2], args[3])
              THEN "true" ELSE "false"
    /\ UNCHANGED <<counter, hwVars, event_handler, queueVars, pc, p, ticksNow,
                   ops, hwop, st, drainGhost, args, primask, fg, pending>>

PredNext == CallTimeIsInPeriod

PredSpec == PredInit /\ [][PredNext]_vars

\* The circular distance of t from the origin start.
Distance(start, t) == SubMod(t, start, CounterMod)

\* C11 (as claimed): for every triple (start, time, end) of counter values
\* ticker_timeIsInPeriod returns true exactly when the circular distance of
\* time from start is at most that of end from start.
C11_AgreesWithCircularDistance ==
    ret # "none" =>
        ((ret = "true") = (Distance(args[1], args[2]) <= Distance(args[1], args[3])))

\* The same, for triples of three different values.
C11_AgreesOnDistinctValues ==
    (ret # "none" /\ Cardinality({args[1], args[2], args[3]}) = 3) =>
        ((ret = "true") = (Distance(args[1], args[2]) <= Distance(args[1], args[3])))

\* ------------------------------------------------------------------
\* C12 (as claimed): ticker_timeIsInPeriod(s, t, t) returns true for all
\* counter values s and t.
C12_SelfInclusion ==
    (ret # "none" /\ args[2] = args[3]) => (ret = "true")

\* ticker_timeIsInPeriod(s, t, t) is true exactly when s = t.
C12_SelfInclusionOnlyAtStart ==
    (ret # "none" /\ args[2] = args[3]) => ((ret = "true") = (args[1] = args[2]))

\* ------------------------------------------------------------------
\* The foreground and the interrupt on one processor.  A foreground call of
\* ticker_insert_event or ticker_remove_event runs line by line: the mask,
\* the accesses to the counter, the queue and the adapter, the unmask.  The
\* compare interrupt is raised by the hardware at any time while armed; the
\* processor takes it between two foreground steps when its interrupt mask
\* is clear, and the foreground runs on when ticker_irq_handler has
\* returned.  The caller may hold a critical section of its own around a
\* call.  The counter stands still.

\* The caller enters a critical section of its own.
CallerMask ==
    /\ pc = "idle"
    /\ fg.op = "none"
    /\ ~primask
    /\ disable_irq
    /\ hwop' = "none"
    /\ UNCHANGED <<counter, hwVars, event_handler, queueVars, pc, p, ticksNow,
                   ops, st, drainGhost, callVars, fg, pending>>

\* The caller leaves its critical section.
CallerUnmask ==
    /\ pc = "idle"
    /\ fg.op = "none"
    /\ primask
    /\ enable_irq
    /\ hwop' = "none"
    /\ UNCHANGED <<counter, hwVars, event_handler, queueVars, pc, p, ticksNow,
                   ops, st, drainGhost, callVars, fg, pending>>

\* Line 68: ticker_insert_event is entered and masks interrupts.
FgInsertCall(obj, t) ==
    /\ pc = "idle"
    /\ fg.op = "none"
    /\ Charge
    /\ obj \notin Linked
    /\ InUseOrder(obj)
    /\ disable_irq
    /\ fg' = [op |-> "insert", obj |-> obj, t |-> t, at |-> "masked",
              entry |-> primask]
    /\ hwop' = "none"
    /\ UNCHANGED <<counter, hwVars, event_handler, queueVars, pc, p, ticksNow,
                   st, drainGhost, callVars, pending>>

\* Lines 70-76: the counter is read, the first access of the call.
FgInsertRead ==
    /\ pc = "idle"
    /\ fg.op = "insert"
    /\ fg.at = "masked"
    /\ fg' = [fg EXCEPT !.at = "read"]
    /\ hwop' = "none"
    /\ UNCHANGED <<counter, hwVars, event_handler, queueVars, pc, p, ticksNow,
                   ops, st, drainGhost, callVars, primask, pending>>

\* Lines 79-103: the record is written and linked, the adapter armed.
FgInsertLink ==
    /\ pc = "idle"
    /\ fg.op = "insert"
    /\ fg.at = "read"
    /\ InsertEvent(fg.obj, fg.t, IdOf(fg.obj))
    /\ fg' = [fg EXCEPT !.at = "done"]
    /\ UNCHANGED <<counter, event_handler, pc, p, ticksNow, ops, drainGhost,
                   callVars, primask, pending>>

\* Line 109: ticker_remove_event is entered and masks interrupts.
FgRemoveCall(obj) ==
    /\ pc = "idle"
    /\ fg.op = "none"
    /\ Charge
    /\ disable_irq
    /\ fg' = [op |-> "remove", obj |-> obj, t |-> 0, at |-> "masked",
              entry |-> primask]
    /\ hwop' = "none"
    /\ UNCHANGED <<counter, hwVars, event_handler, queueVars, pc, p, ticksNow,
                   st, drainGhost, callVars, pending>>

\* Lines 112-130: the record is unlinked, the adapter armed or disarmed.
FgRemoveUnlink ==
    /\ pc = "idle"
    /\ fg.op = "remove"
    /\ fg.at = "masked"
    /\ RemoveEvent(fg.obj)
    /\ fg' = [fg EXCEPT !.at = "done"]
    /\ UNCHANGED <<counter, event_handler, pc, p, ticksNow, ops, drainGhost,
                   callVars, primask, pending>>

\* Lines 105 and 132: interrupts are enabled and the call returns.
FgReturn ==
    /\ pc = "idle"
    /\ fg.op # "none"
    /\ fg.at = "done"
    /\ enable_irq
    /\ fg' = NoCall
    /\ hwop' = "none"
    /\ UNCHANGED <<counter, hwVars, event_handler, queueVars, pc, p, ticksNow,
                   ops, st, drainGhost, callVars, pending>>

\* The hardware raises the compare interrupt.
IrqRaise ==
    /\ armed
    /\ ~pending
    /\ pending' = TRUE
    /\ hwop' = "none"
    /\ UNCHANGED <<counter, hwVars, event_handler, queueVars, pc, p, ticksNow,
                   ops, st, drainGhost, callVars, primask, fg>>

\* The processor takes the raised interrupt: ticker_irq_handler is entered.
IrqTake ==
    /\ pending
    /\ Charge
    /\ IrqEnterBody

PreemptNext ==
    \/ CallerMask
    \/ CallerUnmask
    \/ \E obj \in Records, t \in TimestampInputs : FgInsertCall(obj, t)
    \/ FgInsertRead
    \/ FgInsertLink
    \/ \E obj \in Records : FgRemoveCall(obj)
    \/ FgRemoveUnlink
    \/ FgReturn
    \/ IrqRaise
    \/ IrqTake
    \/ DrainStep
    \/ \E obj \in Records, t \in TimestampInputs : CbInsert(obj, t)
    \/ \E obj \in Records : CbRemove(obj)
    \/ CbReturn
    \/ IrqReturn

PreemptSpec == Init /\ [][PreemptNext]_vars

\* This step belongs to ticker_irq_handler: it enters it, runs its loop or
\* a callback, or returns from it.
IrqStep == pc # "idle" \/ pc' # "idle"

\* A foreground call is between its mask and its unmask.
InCall == fg.at \in {"masked", "read", "done"}

\* C13: no step of ticker_irq_handler runs between the first and the last
\* access to the queue or the adapter of a foreground ticker_insert_event
\* or ticker_remove_event in progress; the drain sees the queue before or
\* after the whole call.
C13_NoDrainStepInsideCall ==
    [][IrqStep => (~InCall /\ fg' = fg)]_vars

\* C13 witness: the compare interrupt is raised while a foreground insert
\* is between its first access (the read of the counter) and its last, with
\* events linked; it is held off.
C13_Witness ==
    /\ fg.op = "insert"
    /\ fg.at = "read"
    /\ pending
    /\ head # NULL
    /\ pc = "idle"

\* ------------------------------------------------------------------
\* C19 (as claimed): ticker_insert_event and ticker_remove_event return
\* with the interrupt mask as it was on entry, also when they are called
\* with interrupts masked.
C19_MaskPreserved ==
    [][(fg.at = "done" /\ fg'.op = "none") => (primask' = fg.entry)]_vars

\* The calls return with the interrupt mask clear.
C19_ReturnsUnmasked ==
    [][(fg.at = "done" /\ fg'.op = "none") => ~primask']_vars

\* ------------------------------------------------------------------
\* C14: callers never inserting a record that is linked, the chain from
\* head is finite and free of cycles and holds every record at most once,
\* after any sequence of inserts, removes and drains, a callback
\* re-inserting its own just-dispatched record included.
C14_ChainWellFormed ==
    /\ Len(Chain) <= NumEvents
    /\ \A i, j \in 1..Len(Chain) : i # j => Chain[i] # Chain[j]

\* C14 witness: the running callback has inserted the record it was called
\* for again, behind another linked event.
C14_Witness ==
    /\ pc = "callback"
    /\ cbcall = "insert"
    /\ p \in Linked
    /\ head # p
    /\ Len(Chain) >= 2

\* ------------------------------------------------------------------
\* The linked events in the order of the chain have ascending timestamps.
Ascending ==
    \A i, j \in 1..Len(Chain) :
        i < j => timestamp[Chain[i]] <= timestamp[Chain[j]]

\* The events of AtEntry whose timestamp the counter has not reached.
Later == {e \in AtEntry : timestamp[e] > counter}

\* The no-wrap scenario at the return of a drain, the counter standing
\* still since the inserts: no callback touched the queue; the events
\* linked at entry all have timestamps at or ahead of the counter value
\* with no wraparound in between; one of them, the earliest, is at the
\* counter value, the others further ahead than the near-future tolerance.
C15_Given ==
    /\ pc = "ret"
    /\ event_handler
    /\ ~mutated
    /\ \A e \in AtEntry : timestamp[e] >= counter
    /\ Cardinality(AtEntry \ Later) = 1
    /\ Later # {}
    /\ \A e \in Later : timestamp[e] - counter > TICKER_FUTURE_TOLERANCE

\* What the scenario expects of the drain: the earliest event alone was
\* dispatched, the others are linked in ascending order of their
\* timestamps, and the adapter is armed for the next timestamp.
C15_Expected ==
    /\ Len(fired) = 1
    /\ \A e \in AtEntry \ Later : fired[1] = id[e]
    /\ Linked = Later
    /\ Ascending
    /\ armed
    /\ compare = timestamp[head]
    /\ \A e \in Later : compare <= timestamp[e]

\* C15 (as claimed): events inserted in any order with timestamps ahead of
\* the counter value and no wraparound in between are linked in ascending
\* order of their timestamps; a drain at a counter value past only the
\* earliest of them, the next one being further away than the near-future
\* tolerance, dispatches exactly the earliest, leaves the others linked in
\* order and arms the adapter for the next timestamp.
C15_NoWrapScenario == C15_Given => C15_Expected

\* The same, for later timestamps no further ahead than the past tolerance.
C15_NoWrapWithinTolerance ==
    (C15_Given /\ \A e \in Later : timestamp[e] - counter <= TICKER_PAST_TOLERANCE)
        => C15_Expected

\* The scenario's second case has happened: three events, the earliest
\* dispatched alone.
C15_ScenarioReached ==
    /\ C15_Given
    /\ Cardinality(AtEntry) = 3
    /\ Len(fired) = 1

\* ------------------------------------------------------------------
\* C17 (as claimed): the handler is never called for an event whose
\* timestamp is more than TICKER_FUTURE_TOLERANCE ticks ahead of the
\* counter value the drain reads, for every timestamp a caller may insert,
\* up to almost a whole period ahead.  (The counter standing still, the
\* distance of the timestamp from the counter is the one it was inserted
\* with.)
C17_NoEarlyDispatch ==
    [][\A e \in Records :
          Dispatches(e) =>
              Distance(counter, timestamp[e]) <= TICKER_FUTURE_TOLERANCE]_vars

\* The same, for timestamps no further ahead than the past tolerance.
C17_NoEarlyDispatchWithinTolerance ==
    [][\A e \in Records :
          (Dispatches(e) /\ Distance(counter, timestamp[e]) <= TICKER_PAST_TOLERANCE)
              => Distance(counter, timestamp[e]) <= TICKER_FUTURE_TOLERANCE]_vars

\* ------------------------------------------------------------------
\* C18 (as claimed): an event inserted with the masked timestamp of an
\* event already linked is placed after it, for every counter value at
\* the insertion, so that events of equal timestamps are dispatched in
\* the order of their insertion.  (Inserts alone: the records are inserted
\* once each, in the order of their numbers.)
C18_FifoTieBreak ==
    \A i, j \in 1..Len(Chain) :
        (i < j /\ timestamp[Chain[i]] = timestamp[Chain[j]]) => Chain[i] < Chain[j]

\* The same, for chains none of whose timestamps is the reference time.
C18_FifoUnlessAtReference ==
    (\A e \in Linked : timestamp[e] # InsertReference(counter)) => C18_FifoTieBreak

\* ------------------------------------------------------------------
\* C20 (as claimed): the reference time ticker_insert_event gives to the
\* ordering predicate, the counter reading minus TICKER_EXPECT_ISR_DELAY,
\* is a value of the counter's width, within 0..TICKER_TIME_MASK, also when
\* the counter reads less than TICKER_EXPECT_ISR_DELAY and the counter is
\* narrower than timestamp_t.
C20_ReferenceInCounterDomain ==
    [][InsertOnlyNext => InsertReference(counter) \in CounterValues]_vars

\* The same, for counter readings of at least TICKER_EXPECT_ISR_DELAY.
C20_ReferenceInDomainWithoutBorrow ==
    [][(InsertOnlyNext /\ counter >= TICKER_EXPECT_ISR_DELAY)
          => InsertReference(counter) \in CounterValues]_vars

\* ------------------------------------------------------------------
\* The queue driven by its hardware: the counter keeps advancing, the
\* compare interrupt is raised when the counter reaches the armed compare
\* value and stays raised until ticker_irq_handler clears it (line 30), and
\* the processor serves a raised interrupt.  The inserts of the foreground
\* and of callbacks are charged to the budget, so that every drain ends; the
\* interrupts are not.  A callback inserts the record it was called for, as
\* a periodic event does; no event is removed.  ticked counts the ticks since the interrupt was
\* raised or entered, up to one more than MaxDrainTicks.
LiveTick ==
    /\ counter' = (counter + 1) % CounterMod
    /\ pending' = (pending \/ (armed /\ compare = (counter + 1) % CounterMod))
    /\ ticked' = IF pending \/ pc # "idle"
                 THEN (IF ticked <= MaxDrainTicks THEN ticked + 1 ELSE ticked)
                 ELSE 0
    /\ UNCHANGED <<hwVars, event_handler, queueVars, pc, p, ticksNow, ops,
                   hwop, fired, st, mutated, dueIns, cbcall, callVars,
                   primask, fg>>

\* The processor serves the raised interrupt.
IrqServe ==
    /\ pending
    /\ IrqEnterBody
    /\ UNCHANGED ops

LiveNext ==
    \/ \E obj \in 1..MaxLiveEvents, t \in TimestampInputs : Insert(obj, t)
    \/ LiveTick
    \/ IrqServe
    \/ DrainStep
    \/ \E t \in TimestampInputs : CbInsert(p, t)
    \/ CbReturn
    \/ IrqReturn

LiveSpec ==
    /\ Init
    /\ [][LiveNext]_vars
    /\ WF_vars(LiveTick)
    /\ WF_vars(IrqServe)
    /\ WF_vars(DrainStep)
    /\ WF_vars(CbReturn)
    /\ WF_vars(IrqReturn)

\* Every event that is linked is dispatched or removed in the end.
EventuallyDispatched ==
    \A e \in Records : (st[e] = "inserted") ~> (st[e] # "inserted")

\* C16 (as claimed): the counter advancing, the interrupt raised whenever
\* the counter reaches the armed compare value and every drain ending,
\* every event that is inserted and not removed is dispatched in the end.
C16_EventualDispatch == EventuallyDispatched

\* C16 (amended): the same, provided a raised interrupt is served in time:
\* the counter advances at most MaxDrainTicks times between the raising of
\* the interrupt and the return of ticker_irq_handler, which is within the
\* window in which the drain takes a timestamp for just missed.
C16_DispatchWhenServedInTime ==
    ([](ticked <= MaxDrainTicks)) => EventuallyDispatched

\* C16 witness: a drain that the compare interrupt started, served one
\* tick after it was raised, has dispatched the event the adapter was armed
\* for, its timestamp just missed; another event is still linked.
C16_Witness ==
    /\ pc = "callback"
    /\ ticked = MaxDrainTicks
    /\ Len(fired) = 1
    /\ head # NULL
    /\ st[p] = "dispatched"
    /\ compare = timestamp[p]
    /\ ticksNow = (timestamp[p] + 1) % CounterMod

=============================================================================
